---- MODULE Spec2Model ----
(***************************************************************************)
(* Model of utils/db_manager.py (class DatabaseManager): the single SQLite *)
(* connection with Python's implicit transaction handling, the generic     *)
(* CRUD helpers, the TTL cache with substring invalidation, the domain     *)
(* operations built on them and the backup / verify / restore pipeline.    *)
(*                                                                         *)
(* A handler is one action.  Its body is the handler's statements composed *)
(* in order over a record S (the object's fields plus the database seen    *)
(* through the connection and the committed database file); an operator    *)
(* that models a method returns [S |-> the new fields, ...its result].     *)
(***************************************************************************)
EXTENDS Integers, Sequences, FiniteSets, TLC

VARIABLES
    db,          \* the tables as seen through self.connection
    committed,   \* the tables as committed to the database file
    in_txn,      \* the connection has an open transaction
    connection,  \* self.connection is not None
    cache,       \* self.cache     : key -> cached result
    cache_ttl,   \* self.cache_ttl : key -> expiry time
    now,         \* time.time(), in seconds
    files,       \* backup artifacts on disk: path -> artifact
    temp_dirs,   \* number of temporary extraction directories that exist
    last,        \* observation of the most recent handler call
    clean,       \* every cache entry was stored after the latest committed write
    adj,         \* per product: what adjust_product_quantity calls were made
    taken,       \* backups taken: how many, and per artifact the live database
                 \* when backup_database returned
    boot         \* construction of the DatabaseManager: where __init__ is, what
                 \* it has run, and the schema objects in the database file

vars == <<db, committed, in_txn, connection, cache, cache_ttl, now, files,
          temp_dirs, last, clean, adj, taken, boot>>

----------------------------------------------------------------------------
(* Bounds of the model *)

MaxProducts == 2
MaxCustomers == 1
MaxSales == 2
MaxLines == 2
MaxExpenses == 1
MaxAdjust == 2
MaxBackups == 1
MaxNow == 360
CacheRows == 1
MaxConstructions == 3
MaxEvictions == 2

(* Program constants *)

default_ttl == 300
list_ttl == 60
max_cache_size == 100
CURRENT_VERSION == 3
history_limit == 100

(* Python's None where a string or an id is expected *)
NULL == "<None>"
NoId == 0
NoTtl == 0

Skus == {"TS001", "TS002"}
DiscordIds == {"d1"}
Users == {"user1", NULL}
Deltas == {-1, 2}
InitialQuantities == {3}
SaleQuantities == {2}
ProductIds == 1..MaxProducts
TickStep == 60

Tables == {"products", "expenses", "customers", "sales", "sale_items",
           "audit_log", "backup_log", "inventory_history", "schema_version"}

IdCol(table) ==
    CASE table = "products" -> "product_id"
      [] table = "expenses" -> "expense_id"
      [] table = "customers" -> "customer_id"
      [] table = "sales" -> "sale_id"
      [] table = "sale_items" -> "sale_item_id"
      [] table = "audit_log" -> "log_id"
      [] table = "backup_log" -> "backup_id"
      [] table = "inventory_history" -> "history_id"
      [] table = "schema_version" -> "version"

SetMax(s) == CHOOSE m \in s : \A y \in s : y <= m

----------------------------------------------------------------------------
(* Strings as the characters they are made of: str(), f-strings, `in` *)

Chars(s) ==
    CASE s = "_get_by_id_impl" -> <<"_", "g", "e", "t", "_", "b", "y", "_", "i", "d", "_", "i", "m", "p", "l">>
      [] s = "_get_product_by_sku_impl" -> <<"_", "g", "e", "t", "_", "p", "r", "o", "d", "u", "c", "t", "_", "b", "y", "_", "s", "k", "u", "_", "i", "m", "p", "l">>
      [] s = "_list_products_impl" -> <<"_", "l", "i", "s", "t", "_", "p", "r", "o", "d", "u", "c", "t", "s", "_", "i", "m", "p", "l">>
      [] s = "_get_customer_by_discord_id_impl" -> <<"_", "g", "e", "t", "_", "c", "u", "s", "t", "o", "m", "e", "r", "_", "b", "y", "_", "d", "i", "s", "c", "o", "r", "d", "_", "i", "d", "_", "i", "m", "p", "l">>
      [] s = "_list_customers_impl" -> <<"_", "l", "i", "s", "t", "_", "c", "u", "s", "t", "o", "m", "e", "r", "s", "_", "i", "m", "p", "l">>
      [] s = "_get_sale_impl" -> <<"_", "g", "e", "t", "_", "s", "a", "l", "e", "_", "i", "m", "p", "l">>
      [] s = "_list_sales_impl" -> <<"_", "l", "i", "s", "t", "_", "s", "a", "l", "e", "s", "_", "i", "m", "p", "l">>
      [] s = "_list_expenses_impl" -> <<"_", "l", "i", "s", "t", "_", "e", "x", "p", "e", "n", "s", "e", "s", "_", "i", "m", "p", "l">>
      [] s = "_get_inventory_history_impl" -> <<"_", "g", "e", "t", "_", "i", "n", "v", "e", "n", "t", "o", "r", "y", "_", "h", "i", "s", "t", "o", "r", "y", "_", "i", "m", "p", "l">>
      [] s = "products" -> <<"p", "r", "o", "d", "u", "c", "t", "s">>
      [] s = "expenses" -> <<"e", "x", "p", "e", "n", "s", "e", "s">>
      [] s = "customers" -> <<"c", "u", "s", "t", "o", "m", "e", "r", "s">>
      [] s = "sales" -> <<"s", "a", "l", "e", "s">>
      [] s = "sale_items" -> <<"s", "a", "l", "e", "_", "i", "t", "e", "m", "s">>
      [] s = "audit_log" -> <<"a", "u", "d", "i", "t", "_", "l", "o", "g">>
      [] s = "backup_log" -> <<"b", "a", "c", "k", "u", "p", "_", "l", "o", "g">>
      [] s = "inventory_history" -> <<"i", "n", "v", "e", "n", "t", "o", "r", "y", "_", "h", "i", "s", "t", "o", "r", "y">>
      [] s = "schema_version" -> <<"s", "c", "h", "e", "m", "a", "_", "v", "e", "r", "s", "i", "o", "n">>
      [] s = "product_id" -> <<"p", "r", "o", "d", "u", "c", "t", "_", "i", "d">>
      [] s = "expense_id" -> <<"e", "x", "p", "e", "n", "s", "e", "_", "i", "d">>
      [] s = "customer_id" -> <<"c", "u", "s", "t", "o", "m", "e", "r", "_", "i", "d">>
      [] s = "sale_id" -> <<"s", "a", "l", "e", "_", "i", "d">>
      [] s = "sale_item_id" -> <<"s", "a", "l", "e", "_", "i", "t", "e", "m", "_", "i", "d">>
      [] s = "log_id" -> <<"l", "o", "g", "_", "i", "d">>
      [] s = "backup_id" -> <<"b", "a", "c", "k", "u", "p", "_", "i", "d">>
      [] s = "history_id" -> <<"h", "i", "s", "t", "o", "r", "y", "_", "i", "d">>
      [] s = "version" -> <<"v", "e", "r", "s", "i", "o", "n">>
      [] s = "TS001" -> <<"T", "S", "0", "0", "1">>
      [] s = "TS002" -> <<"T", "S", "0", "0", "2">>
      [] s = "d1" -> <<"d", "1">>
      [] s = "d2" -> <<"d", "2">>

Digit(d) ==
    CASE d = 0 -> "0" [] d = 1 -> "1" [] d = 2 -> "2" [] d = 3 -> "3"
      [] d = 4 -> "4" [] d = 5 -> "5" [] d = 6 -> "6" [] d = 7 -> "7"
      [] d = 8 -> "8" [] d = 9 -> "9"

RECURSIVE StrInt(_)
StrInt(n) == IF n < 10 THEN <<Digit(n)>> ELSE StrInt(n \div 10) \o <<Digit(n % 10)>>

Quoted(s) == <<"'">> \o Chars(s) \o <<"'">>
NoneStr == <<"N", "o", "n", "e">>
Sep == <<",", " ">>

(* `pattern in k` on Python strings *)
IsPrefixOf(p, k) == Len(p) <= Len(k) /\ SubSeq(k, 1, Len(p)) = p
IsSubstring(p, k) ==
    \E i \in 1..(Len(k) - Len(p) + 1) : SubSeq(k, i, i + Len(p) - 1) = p

----------------------------------------------------------------------------
(* Cache keys.  A key is kept as the wrapped function's name and its       *)
(* arguments (s: the string argument, n: the integer argument); KeyStr is  *)
(* the string _cache_key builds from them.                                 *)

Key(func, s, n) == [func |-> func, s |-> s, n |-> n]

ArgsStr(k) ==
    CASE k.func = "_get_by_id_impl" ->
            <<"(">> \o Quoted(k.s) \o Sep \o Quoted(IdCol(k.s)) \o Sep \o StrInt(k.n) \o <<")">>
      [] k.func = "_get_product_by_sku_impl" -> <<"(">> \o Quoted(k.s) \o <<",", ")">>
      [] k.func = "_list_products_impl" -> <<"(">> \o NoneStr \o Sep \o NoneStr \o <<")">>
      [] k.func = "_get_customer_by_discord_id_impl" -> <<"(">> \o Quoted(k.s) \o <<",", ")">>
      [] k.func = "_list_customers_impl" -> <<"(", ")">>
      [] k.func = "_get_sale_impl" -> <<"(">> \o StrInt(k.n) \o <<",", ")">>
      [] k.func = "_list_sales_impl" ->
            <<"(">> \o NoneStr \o Sep \o NoneStr \o Sep \o NoneStr \o <<")">>
      [] k.func = "_list_expenses_impl" ->
            <<"(">> \o NoneStr \o Sep \o NoneStr \o Sep \o NoneStr \o <<")">>
      [] k.func = "_get_inventory_history_impl" ->
            <<"(">> \o NoneStr \o Sep \o NoneStr \o Sep \o NoneStr \o Sep
                    \o StrInt(history_limit) \o <<")">>

KeyStr(k) == Chars(k.func) \o <<":">> \o ArgsStr(k) \o <<":">> \o <<"[", "]">>

----------------------------------------------------------------------------
(* Results of reads: None, one row (a dict), or a list of rows *)

None == [kind |-> "none"]
RowVal(r) == [kind |-> "row", row |-> r]
ListVal(rs) == [kind |-> "list", rows |-> rs]
IsNone(v) == v.kind = "none"

EmptyDb == [t \in Tables |-> {}]

EmptyMap == [x \in {} |-> None]
Remove(f, k) == [x \in (DOMAIN f) \ {k} |-> f[x]]
Put(f, k, v) == (k :> v) @@ f

----------------------------------------------------------------------------
(* Connection and transactions (sqlite3 with the default isolation level:  *)
(* a BEGIN is issued before an INSERT, UPDATE or DELETE when none is open; *)
(* a failed statement changes nothing and leaves the transaction open).    *)

_get_connection_stays_closed(S) == S
_get_connection_opens_another(S) ==
    [S EXCEPT !.connection = TRUE, !.in_txn = FALSE, !.db = S.committed]
_get_connection(S) ==
    IF S.connection THEN S ELSE [S EXCEPT !.connection = TRUE, !.in_txn = FALSE]

close(S) ==
    IF S.connection
    THEN [S EXCEPT !.connection = FALSE, !.in_txn = FALSE, !.db = S.committed]
    ELSE S

ImplicitBegin(S) == [S EXCEPT !.in_txn = TRUE]
commit(S) == [S EXCEPT !.committed = S.db, !.in_txn = FALSE]
rollback(S) == [S EXCEPT !.db = S.committed, !.in_txn = FALSE]

----------------------------------------------------------------------------
(* Cache management *)

_get_from_cache_keeps_expired(S, key) ==
    IF key \in DOMAIN S.cache THEN [S |-> S, val |-> S.cache[key]]
    ELSE [S |-> S, val |-> None]
_get_from_cache(S, key) ==
    IF key \in DOMAIN S.cache
    THEN IF key \in DOMAIN S.cache_ttl /\ S.cache_ttl[key] < S.now
         THEN [S |-> [S EXCEPT !.cache = Remove(S.cache, key),
                               !.cache_ttl = Remove(S.cache_ttl, key)],
               val |-> None]
         ELSE [S |-> S, val |-> S.cache[key]]
    ELSE [S |-> S, val |-> None]

_set_in_cache_never_evicts(S, key, value, ttl) ==
    [S EXCEPT !.cache = Put(S.cache, key, value),
              !.cache_ttl = Put(S.cache_ttl, key,
                                S.now + (IF ttl # NoTtl THEN ttl ELSE default_ttl))]
_set_in_cache_evicts_latest(S, key, value, ttl) ==
    LET S1 == IF Cardinality(DOMAIN S.cache) >= max_cache_size
              THEN LET latest_key == CHOOSE k \in DOMAIN S.cache_ttl :
                                       \A j \in DOMAIN S.cache_ttl :
                                           S.cache_ttl[k] >= S.cache_ttl[j]
                   IN [S EXCEPT !.cache = Remove(S.cache, latest_key),
                                !.cache_ttl = Remove(S.cache_ttl, latest_key)]
              ELSE S
    IN [S1 EXCEPT !.cache = Put(S1.cache, key, value),
                  !.cache_ttl = Put(S1.cache_ttl, key,
                                    S1.now + (IF ttl # NoTtl THEN ttl ELSE default_ttl))]
_set_in_cache(S, key, value, ttl) ==
    LET S1 == IF Cardinality(DOMAIN S.cache) >= max_cache_size
              THEN LET oldest_key == CHOOSE k \in DOMAIN S.cache_ttl :
                                       \A j \in DOMAIN S.cache_ttl :
                                           S.cache_ttl[k] <= S.cache_ttl[j]
                   IN [S EXCEPT !.cache = Remove(S.cache, oldest_key),
                                !.cache_ttl = Remove(S.cache_ttl, oldest_key)]
              ELSE S
        ttl_value == IF ttl # NoTtl THEN ttl ELSE default_ttl
    IN [S1 EXCEPT !.cache = Put(S1.cache, key, value),
                  !.cache_ttl = Put(S1.cache_ttl, key, S1.now + ttl_value)]

_invalidate_cache_by_pattern_only(S, pattern) ==
    IF pattern = NULL
    THEN S
    ELSE LET keys_to_remove ==
                 {k \in DOMAIN S.cache : IsSubstring(Chars(pattern), KeyStr(k))}
         IN [S EXCEPT !.cache = [k \in (DOMAIN S.cache) \ keys_to_remove |-> S.cache[k]],
                      !.cache_ttl = [k \in (DOMAIN S.cache_ttl) \ keys_to_remove
                                        |-> S.cache_ttl[k]]]
_invalidate_cache(S, pattern) ==
    IF pattern = NULL
    THEN [S EXCEPT !.cache = EmptyMap, !.cache_ttl = EmptyMap]
    ELSE LET keys_to_remove ==
                 {k \in DOMAIN S.cache : IsSubstring(Chars(pattern), KeyStr(k))}
         IN [S EXCEPT !.cache = [k \in (DOMAIN S.cache) \ keys_to_remove |-> S.cache[k]],
                      !.cache_ttl = [k \in (DOMAIN S.cache_ttl) \ keys_to_remove
                                        |-> S.cache_ttl[k]]]

(* The wrapper the decorator builds around a function: `miss` is the       *)
(* function's result when it is called after the lookup, on AfterLookup.   *)
AfterLookup(S, key) == _get_from_cache(S, key).S

cached(S, key, ttl, miss) ==
    LET g == _get_from_cache(S, key)
    IN IF ~IsNone(g.val)
       THEN g
       ELSE [S |-> _set_in_cache(miss.S, key, miss.val, ttl), val |-> miss.val]

----------------------------------------------------------------------------
(* Generic CRUD operations *)

Exists(d, table, id) == \E r \in d[table] : r[IdCol(table)] = id
RowOf(d, table, id) == CHOOSE r \in d[table] : r[IdCol(table)] = id

(* The schema's constraints (UNIQUE, NOT NULL, PRIMARY KEY, FOREIGN KEY    *)
(* with PRAGMA foreign_keys = ON) that the modelled columns can violate.   *)
(* The schema without the UNIQUE constraint on products.sku *)
InsertViolates_no_unique(d, table, data) ==
    CASE table = "sales" ->
            data.customer_id # NoId /\ ~Exists(d, "customers", data.customer_id)
      [] table = "sale_items" ->
            \/ ~Exists(d, "sales", data.sale_id)
            \/ ~Exists(d, "products", data.product_id)
      [] table = "audit_log" -> data.user_id = NULL
      [] table = "inventory_history" ->
            data.user_id = NULL \/ ~Exists(d, "products", data.product_id)
      [] table = "schema_version" -> Exists(d, "schema_version", data.version)
      [] OTHER -> FALSE

InsertViolates(d, table, data) ==
    CASE table = "products" ->
            data.sku # NULL /\ \E p \in d.products : p.sku = data.sku
      [] table = "sales" ->
            data.customer_id # NoId /\ ~Exists(d, "customers", data.customer_id)
      [] table = "sale_items" ->
            \/ ~Exists(d, "sales", data.sale_id)
            \/ ~Exists(d, "products", data.product_id)
      [] table = "audit_log" -> data.user_id = NULL
      [] table = "inventory_history" ->
            data.user_id = NULL \/ ~Exists(d, "products", data.product_id)
      [] table = "schema_version" -> Exists(d, "schema_version", data.version)
      [] OTHER -> FALSE

UpdateViolates(d, table, data, id_value) ==
    /\ table = "products"
    /\ "sku" \in DOMAIN data
    /\ data.sku # NULL
    /\ Exists(d, table, id_value)
    /\ \E p \in d.products : p.sku = data.sku /\ p.product_id # id_value

DeleteViolates(d, table, id_value) ==
    CASE table = "products" ->
            \/ \E r \in d.sale_items : r.product_id = id_value
            \/ \E r \in d.inventory_history : r.product_id = id_value
      [] table = "customers" -> \E r \in d.sales : r.customer_id = id_value
      [] table = "sales" -> \E r \in d.sale_items : r.sale_id = id_value
      [] OTHER -> FALSE

(* cursor.lastrowid of an INTEGER PRIMARY KEY table *)
NextRowId(d, table) ==
    IF d[table] = {} THEN 1 ELSE SetMax({r[IdCol(table)] : r \in d[table]}) + 1

execute_query(S) == [_get_connection(S) EXCEPT !.nq = @ + 1]

insert(S, table, data) ==
    LET S1 == ImplicitBegin(_get_connection(S))
        id == IF IdCol(table) \in DOMAIN data THEN data[IdCol(table)]
              ELSE NextRowId(S.db, table)
        row == data @@ (IdCol(table) :> id)
    IN IF InsertViolates(S.db, table, data)
       THEN [S |-> S1, exc |-> TRUE, id |-> NoId]
       ELSE [S |-> _invalidate_cache(
                       commit([S1 EXCEPT !.db[table] = @ \cup {row}]), table),
             exc |-> FALSE, id |-> id]

update(S, table, data, id_value) ==
    LET S1 == ImplicitBegin(_get_connection(S))
        hit == {r \in S.db[table] : r[IdCol(table)] = id_value}
        rows == {IF r \in hit THEN data @@ r ELSE r : r \in S.db[table]}
    IN IF UpdateViolates(S.db, table, data, id_value)
       THEN [S |-> S1, exc |-> TRUE, rowcount |-> 0]
       ELSE [S |-> _invalidate_cache(commit([S1 EXCEPT !.db[table] = rows]), table),
             exc |-> FALSE, rowcount |-> Cardinality(hit)]

delete(S, table, id_value) ==
    LET S1 == ImplicitBegin(_get_connection(S))
        hit == {r \in S.db[table] : r[IdCol(table)] = id_value}
    IN IF hit # {} /\ DeleteViolates(S.db, table, id_value)
       THEN [S |-> S1, exc |-> TRUE, rowcount |-> 0]
       ELSE [S |-> _invalidate_cache(
                       commit([S1 EXCEPT !.db[table] = @ \ hit]), table),
             exc |-> FALSE, rowcount |-> Cardinality(hit)]

_get_by_id_impl(S, table, id_value) ==
    LET S1 == execute_query(S)
    IN [S |-> S1,
        val |-> IF Exists(S1.db, table, id_value)
                THEN RowVal(RowOf(S1.db, table, id_value)) ELSE None]

get_by_id(S, table, id_value) ==
    LET key == Key("_get_by_id_impl", table, id_value)
    IN cached(S, key, NoTtl, _get_by_id_impl(AfterLookup(S, key), table, id_value))

----------------------------------------------------------------------------
(* Product operations *)

add_product(S, product_data) == insert(S, "products", product_data)

update_product(S, product_id, product_data) ==
    LET S1 == _invalidate_cache(_invalidate_cache(S, "_get_product_by_sku_impl"),
                                "_get_by_id_impl")
        u == update(S1, "products", product_data, product_id)
    IN [S |-> u.S, exc |-> u.exc, ret |-> u.rowcount > 0]

get_product(S, product_id) == get_by_id(S, "products", product_id)

_get_product_by_sku_impl(S, sku) ==
    LET S1 == execute_query(S)
        results == {p \in S1.db.products : p.sku = sku}
    IN [S |-> S1,
        val |-> IF results # {} THEN RowVal(CHOOSE p \in results : TRUE) ELSE None]

get_product_by_sku(S, sku) ==
    LET key == Key("_get_product_by_sku_impl", sku, NoId)
    IN cached(S, key, NoTtl, _get_product_by_sku_impl(AfterLookup(S, key), sku))

_list_products_impl(S) ==
    LET S1 == execute_query(S) IN [S |-> S1, val |-> ListVal(S1.db.products)]

list_products(S) ==
    LET key == Key("_list_products_impl", NULL, NoId)
    IN cached(S, key, NoTtl, _list_products_impl(AfterLookup(S, key)))

log_audit_rewrites_rows(S, action, entity_type, entity_id, user_id) ==
    insert([S EXCEPT !.db.audit_log = {[r EXCEPT !.action = "superseded"] : r \in @}],
           "audit_log", [action |-> action, entity_type |-> entity_type,
                         entity_id |-> entity_id, user_id |-> user_id])
log_audit(S, action, entity_type, entity_id, user_id) ==
    insert(S, "audit_log", [action |-> action, entity_type |-> entity_type,
                            entity_id |-> entity_id, user_id |-> user_id])

add_inventory_history_unrecorded(S, product_id, previous_quantity, new_quantity, change_amount, user_id) ==
    [S |-> S, exc |-> FALSE, id |-> NoId]
add_inventory_history(S, product_id, previous_quantity, new_quantity, change_amount, user_id) ==
    insert(S, "inventory_history",
           [product_id |-> product_id, previous_quantity |-> previous_quantity,
            new_quantity |-> new_quantity, change_amount |-> change_amount,
            user_id |-> user_id])

adjust_product_quantity(S, product_id, quantity_change, user_id) ==
    LET S0 == _get_connection(S)
        g == get_product(S0, product_id)
        current_quantity == g.val.row.quantity
        new_quantity == current_quantity + quantity_change
        u == update(g.S, "products", [quantity |-> new_quantity], product_id)
        a == log_audit(u.S, "adjust_quantity", "product", product_id, user_id)
        h == add_inventory_history(a.S, product_id, current_quantity, new_quantity,
                                   quantity_change, user_id)
    IN IF IsNone(g.val) THEN [S |-> g.S, ret |-> FALSE]
       ELSE IF u.exc THEN [S |-> rollback(u.S), ret |-> FALSE]
       ELSE IF a.exc THEN [S |-> rollback(a.S), ret |-> FALSE]
       ELSE IF h.exc THEN [S |-> rollback(h.S), ret |-> FALSE]
       ELSE [S |-> h.S, ret |-> TRUE]

----------------------------------------------------------------------------
(* Expense and customer operations *)

add_expense(S, expense_data) == insert(S, "expenses", expense_data)

_list_expenses_impl(S) ==
    LET S1 == execute_query(S) IN [S |-> S1, val |-> ListVal(S1.db.expenses)]

list_expenses(S) ==
    LET key == Key("_list_expenses_impl", NULL, NoId)
    IN cached(S, key, list_ttl, _list_expenses_impl(AfterLookup(S, key)))

add_customer(S, customer_data) == insert(S, "customers", customer_data)

get_customer(S, customer_id) == get_by_id(S, "customers", customer_id)

_get_customer_by_discord_id_impl(S, discord_id) ==
    LET S1 == execute_query(S)
        results == {c \in S1.db.customers : c.discord_id = discord_id}
    IN [S |-> S1,
        val |-> IF results # {} THEN RowVal(CHOOSE c \in results : TRUE) ELSE None]

get_customer_by_discord_id(S, discord_id) ==
    LET key == Key("_get_customer_by_discord_id_impl", discord_id, NoId)
    IN cached(S, key, NoTtl, _get_customer_by_discord_id_impl(AfterLookup(S, key), discord_id))

_list_customers_impl(S) ==
    LET S1 == execute_query(S) IN [S |-> S1, val |-> ListVal(S1.db.customers)]

list_customers(S) ==
    LET key == Key("_list_customers_impl", NULL, NoId)
    IN cached(S, key, NoTtl, _list_customers_impl(AfterLookup(S, key)))

----------------------------------------------------------------------------
(* Sales operations *)

(* The body of `for item in sale_items` from item i on; exc: an insert or  *)
(* update raised and the loop was left.                                    *)
(* new_quantity = product['quantity'] - quantity *)
decreased_by_one(quantity_held, quantity) == quantity_held - 1
decreased(quantity_held, quantity) == quantity_held - quantity

RECURSIVE SaleItemsLoop(_, _, _, _)
SaleItemsLoop(S, sale_id, sale_items, i) ==
    IF i > Len(sale_items) THEN [S |-> S, exc |-> FALSE]
    ELSE LET item == sale_items[i]
             ins == insert(S, "sale_items",
                           [sale_id |-> sale_id, product_id |-> item.product_id,
                            quantity |-> item.quantity])
             g == get_product(ins.S, item.product_id)
             new_quantity == decreased(g.val.row.quantity, item.quantity)
             u == update(g.S, "products", [quantity |-> new_quantity], item.product_id)
         IN IF ins.exc THEN [S |-> ins.S, exc |-> TRUE]
            ELSE IF IsNone(g.val) THEN SaleItemsLoop(g.S, sale_id, sale_items, i + 1)
            ELSE IF u.exc THEN [S |-> u.S, exc |-> TRUE]
            ELSE SaleItemsLoop(u.S, sale_id, sale_items, i + 1)

add_sale(S, sale_data, sale_items) ==
    LET S0 == _get_connection(S)
        S1 == [S0 EXCEPT !.in_txn = TRUE]
        s == insert(S1, "sales", sale_data)
        l == SaleItemsLoop(s.S, s.id, sale_items, 1)
        done == _invalidate_cache(
                    _invalidate_cache(
                        _invalidate_cache(commit(l.S), "sales"), "sale_items"),
                    "products")
    IN IF S0.in_txn THEN [S |-> S0, exc |-> TRUE, id |-> NoId]
       ELSE IF s.exc THEN [S |-> rollback(s.S), exc |-> TRUE, id |-> NoId]
       ELSE IF l.exc THEN [S |-> rollback(l.S), exc |-> TRUE, id |-> NoId]
       ELSE [S |-> done, exc |-> FALSE, id |-> s.id]

(* sale['items'] = ... and sale['customer'] = ... assign into the dict that *)
(* get_by_id returned, which is the object the cache holds under get_by_id's *)
(* key: SetItem is the assignment as seen through that key.                  *)
SetItem(S, key, field, value) ==
    IF key \in DOMAIN S.cache /\ S.cache[key].kind = "row"
    THEN [S EXCEPT !.cache[key] = RowVal((field :> value) @@ S.cache[key].row)]
    ELSE S

_get_sale_impl(S, sale_id) ==
    LET k == Key("_get_by_id_impl", "sales", sale_id)
        g == get_by_id(S, "sales", sale_id)
        S1 == execute_query(g.S)
        sale_items == {si @@ [sku |-> RowOf(S1.db, "products", si.product_id).sku] :
                          si \in {x \in S1.db.sale_items :
                                     /\ x.sale_id = sale_id
                                     /\ Exists(S1.db, "products", x.product_id)}}
        sale1 == ("items" :> sale_items) @@ g.val.row
        S2 == SetItem(S1, k, "items", sale_items)
        c == get_customer(S2, sale1.customer_id)
        sale2 == ("customer" :> c.val) @@ sale1
        S3 == SetItem(c.S, k, "customer", c.val)
    IN IF IsNone(g.val) THEN [S |-> g.S, val |-> None]
       ELSE IF sale1.customer_id # NoId THEN [S |-> S3, val |-> RowVal(sale2)]
       ELSE [S |-> S2, val |-> RowVal(sale1)]

get_sale(S, sale_id) ==
    LET key == Key("_get_sale_impl", NULL, sale_id)
    IN cached(S, key, NoTtl, _get_sale_impl(AfterLookup(S, key), sale_id))

_list_sales_impl(S) ==
    LET S1 == execute_query(S)
        CustomerName(s) ==
            IF Exists(S1.db, "customers", s.customer_id)
            THEN RowOf(S1.db, "customers", s.customer_id).name ELSE NULL
    IN [S |-> S1,
        val |-> ListVal({s @@ [customer_name |-> CustomerName(s)] : s \in S1.db.sales})]

list_sales(S) ==
    LET key == Key("_list_sales_impl", NULL, NoId)
    IN cached(S, key, list_ttl, _list_sales_impl(AfterLookup(S, key)))

_get_inventory_history_impl(S) ==
    LET S1 == execute_query(S)
    IN [S |-> S1,
        val |-> ListVal({h @@ [sku |-> RowOf(S1.db, "products", h.product_id).sku] :
                            h \in {x \in S1.db.inventory_history :
                                      Exists(S1.db, "products", x.product_id)}})]

get_inventory_history(S) ==
    LET key == Key("_get_inventory_history_impl", NULL, NoId)
    IN cached(S, key, list_ttl, _get_inventory_history_impl(AfterLookup(S, key)))

----------------------------------------------------------------------------
(* Construction: __init__ runs _initialize_database and _apply_migrations. *)
(* boot.pc is the statement __init__ has reached, boot.ran the versions    *)
(* whose script this construction has executed, boot.schema the versions   *)
(* whose script's objects exist in the file (executescript commits, and    *)
(* its CREATE ... IF NOT EXISTS statements are durable at once); v0 and    *)
(* rows0 are the current version and the schema_version rows the           *)
(* construction found, completed whether a construction had completed on   *)
(* the file before, interrupted whether the previous one was interrupted   *)
(* and crashed_at where the latest interruption happened.                  *)

(* migrations.get(version) is not None *)
_get_migration_sql(version) == version \in {2, 3}

_get_current_schema_version_zero(d) == 0
_get_current_schema_version(d) ==
    IF d.schema_version = {} THEN 0
    ELSE SetMax({r.version : r \in d.schema_version})

(* range(current_version + 1, self.CURRENT_VERSION + 1) *)
migration_range_from_current(current_version) == current_version..CURRENT_VERSION
migration_range(current_version) == (current_version + 1)..CURRENT_VERSION

_update_schema_version_nothing(S, version) == [S |-> S, exc |-> FALSE, id |-> version]
_update_schema_version(S, version) == insert(S, "schema_version", [version |-> version])

(* A file left by this program at version v0: one row per scripted version *)
FileAt(v0) ==
    [EmptyDb EXCEPT !.schema_version =
        {[version |-> v] : v \in {x \in 1..v0 : _get_migration_sql(x)}}]

Constructed ==
    [pc |-> "done", version |-> CURRENT_VERSION + 1, v0 |-> 0, rows0 |-> {},
     ran |-> <<2, 3>>, schema |-> {2, 3}, constructions |-> 1,
     completed |-> FALSE, interrupted |-> FALSE, todo |-> {},
     crashed_at |-> ""]

----------------------------------------------------------------------------
(* Backup, verification and restore.                                       *)
(*                                                                         *)
(* An artifact is the file backup_database returns: the database file      *)
(* (the tables copied into it, and whether a byte of it was changed since),*)
(* and the sidecar <file>.meta.json with the checksum recorded in it; for  *)
(* a compressed artifact both are members of the zip archive.  The name    *)
(* is accountme_backup_<timestamp>.db, with .zip appended when compressed. *)

backup_dir == "data/backups"
Path(stamp, compress) == [dir |-> backup_dir, stamp |-> stamp, zip |-> compress]
basename(path) == [stamp |-> path.stamp, zip |-> path.zip]
Ext(path) == IF path.zip THEN "zip" ELSE "db"

DbFile(tables) == [tables |-> tables, flip |-> 0]

(* hashlib.sha256 of a file's bytes, taken as collision-free *)
sha256(bytes) == <<"sha256", bytes>>

(* source.backup(target): the tables the target holds afterwards *)
backup_api_none(source) == EmptyDb
backup_api(source) == source

(* What backup_database hashes: the database file, before it is zipped *)
backup_checksum_of_final_path(bytes, compress) ==
    IF compress THEN sha256([zip |-> bytes]) ELSE sha256(bytes)
backup_checksum(bytes, compress) == sha256(bytes)

(* `expected_checksum != actual_checksum` *)
checksums_differ_never(expected_checksum, actual_checksum) == FALSE
checksums_differ(expected_checksum, actual_checksum) ==
    expected_checksum # actual_checksum

(* The ALTER TABLE statements add columns to backup_log and no rows; the   *)
(* commit that follows them is followed by insert's.                       *)
_ensure_backup_log_extended_schema(S) == execute_query(S)

create_backup_record(S, filename, compressed) ==
    insert(_ensure_backup_log_extended_schema(S), "backup_log",
           [filename |-> filename, compressed |-> IF compressed THEN 1 ELSE 0,
            verified |-> 0])

RECURSIVE CountQueries(_, _)
CountQueries(S, n) == IF n = 0 THEN S ELSE CountQueries(execute_query(S), n - 1)

(* The steps of backup_database that write a file, each of which can fail   *)
(* (OSError, sqlite3.Error): the copy, before or after it has written to    *)
(* the file; the sidecar; the archive.                                      *)
WriteFailures == {"copy", "copy midway", "sidecar", "compress"}
BackupOutcomes(compress) ==
    {"done"} \cup (WriteFailures \ (IF compress THEN {} ELSE {"compress"}))

Failed(S, path) == [S |-> S, exc |-> TRUE, id |-> NoId, path |-> path]

create_backup_record_first(S, backup_path, final_backup_path, compress, fails) ==
    LET r == create_backup_record(_get_connection(S), basename(final_backup_path),
                                  compress)
    IN IF fails = "done"
       THEN [S |-> [r.S EXCEPT !.files =
                       Put(IF compress THEN Remove(S.files, backup_path) ELSE S.files,
                           final_backup_path,
                           [bytes |-> DbFile(backup_api(S.db)), sidecar |-> TRUE,
                            has_checksum |-> TRUE,
                            checksum |-> backup_checksum(DbFile(backup_api(S.db)),
                                                         compress)])],
             exc |-> r.exc, id |-> r.id, path |-> final_backup_path]
       ELSE Failed(r.S, final_backup_path)
backup_steps(S, backup_path, final_backup_path, compress, fails) ==
    LET S1 == _get_connection(S)
        bytes == DbFile(backup_api(S1.db))
        checksum == backup_checksum(bytes, compress)
        S2 == CountQueries(S1, Cardinality(Tables) - 1)
        artifact == [bytes |-> bytes, sidecar |-> TRUE, has_checksum |-> TRUE,
                     checksum |-> checksum]
        partial == [artifact EXCEPT !.bytes.flip = 1]
        S3 == [S2 EXCEPT !.files =
                  IF compress
                  THEN Put(Remove(S2.files, backup_path), final_backup_path, artifact)
                  ELSE Put(S2.files, backup_path, artifact)]
        r == create_backup_record(S3, basename(final_backup_path), compress)
    IN CASE fails = "copy" -> Failed(S1, final_backup_path)
         [] fails = "copy midway" ->
                Failed([S1 EXCEPT !.files =
                           Put(S1.files, backup_path,
                               [partial EXCEPT !.sidecar = FALSE])],
                       final_backup_path)
         [] fails = "sidecar" ->
                Failed([S2 EXCEPT !.files =
                           Put(S2.files, backup_path,
                               [artifact EXCEPT !.sidecar = FALSE])],
                       final_backup_path)
         [] fails = "compress" ->
                Failed([S2 EXCEPT !.files =
                           Put(Put(S2.files, backup_path, artifact),
                               final_backup_path, partial)],
                       final_backup_path)
         [] OTHER -> [S |-> r.S, exc |-> r.exc, id |-> r.id, path |-> final_backup_path]

backup_database(S, compress, fails) ==
    backup_steps(S, Path(S.now, FALSE), Path(S.now, compress), compress, fails)

(* The block both verify_backup_integrity and restore_database end with:   *)
(* the latest backup_log row of that file name is marked verified.         *)
mark_backup_verified(S, backup_filename) ==
    LET S1 == execute_query(S)
        result == {r \in S1.db.backup_log : r.filename = backup_filename}
    IN IF result # {}
       THEN update(S1, "backup_log", [verified |-> 1],
                   SetMax({r.backup_id : r \in result})).S
       ELSE S1

mkdtemp(S, is_compressed) ==
    IF is_compressed THEN [S EXCEPT !.temp_dirs = @ + 1] ELSE S
rmtree_left_behind(S, is_compressed) == S
rmtree(S, is_compressed) ==
    IF is_compressed THEN [S EXCEPT !.temp_dirs = @ - 1] ELSE S

(* The checks verify_backup_integrity makes before it returns True *)
VerifyPasses(a) ==
    /\ a.sidecar
    /\ a.has_checksum
    /\ ~checksums_differ(a.checksum, sha256(a.bytes))

verify_backup_integrity(S, backup_path, read) ==
    IF backup_path \notin DOMAIN S.files
    THEN [S |-> S, ret |-> FALSE]
    ELSE LET a == S.files[backup_path]
             S1 == mkdtemp(S, backup_path.zip)
         IN IF read = "bad_zip"
            THEN [S |-> rmtree(S1, backup_path.zip), ret |-> FALSE]
            ELSE IF VerifyPasses(a)
            THEN [S |-> rmtree(mark_backup_verified(S1, basename(backup_path)),
                               backup_path.zip),
                  ret |-> TRUE]
            ELSE [S |-> rmtree(S1, backup_path.zip), ret |-> FALSE]

(* What sqlite reads from a database file: a file as it was written gives  *)
(* its tables; one with a changed byte is malformed, or reads as before,   *)
(* or reads with changed data.                                             *)
ReadOutcomes(bytes) ==
    IF bytes.flip = 0 THEN {"intact"} ELSE {"malformed", "intact", "altered"}

(* What opening an artifact gives: extractall raises BadZipFile on an       *)
(* archive with a changed byte, or extracts it; then the database file is   *)
(* read.                                                                    *)
OpenOutcomes(S, backup_path) ==
    IF backup_path \notin DOMAIN S.files
    THEN {"intact"}
    ELSE ReadOutcomes(S.files[backup_path].bytes)
         \cup (IF backup_path.zip /\ S.files[backup_path].bytes.flip = 1
               THEN {"bad_zip"} ELSE {})

TablesRead(bytes, read) ==
    IF read = "altered"
    THEN [bytes.tables EXCEPT
              !.products = {[p EXCEPT !.quantity = 0] : p \in bytes.tables.products},
              !.expenses = {[e EXCEPT !.amount = 0] : e \in bytes.tables.expenses}]
    ELSE bytes.tables

(* The check restore_database makes inline before it swaps the database *)
RestoreRejects(a, verify_integrity) ==
    /\ verify_integrity
    /\ a.sidecar
    /\ a.has_checksum
    /\ checksums_differ(a.checksum, sha256(a.bytes))

restore_database(S, backup_path, verify_integrity, read) ==
    IF backup_path \notin DOMAIN S.files
    THEN [S |-> S, ret |-> FALSE, exc |-> FALSE, swap |-> "not reached"]
    ELSE LET a == S.files[backup_path]
             S1 == mkdtemp(S, backup_path.zip)
         IN IF read = "bad_zip"
            THEN [S |-> rmtree(S1, backup_path.zip), ret |-> FALSE, exc |-> TRUE,
                  swap |-> "not reached"]
            ELSE IF RestoreRejects(a, verify_integrity)
            THEN [S |-> rmtree(S1, backup_path.zip), ret |-> FALSE, exc |-> FALSE,
                  swap |-> "not reached"]
            ELSE LET S2 == close(S1)
                 IN IF read = "malformed"
                    THEN [S |-> rmtree(_get_connection(S2), backup_path.zip),
                          ret |-> FALSE, exc |-> FALSE, swap |-> "raised"]
                    ELSE LET tables == backup_api(TablesRead(a.bytes, read))
                             S3 == [S2 EXCEPT !.committed = tables, !.db = tables]
                             S4 == IF a.sidecar
                                   THEN mark_backup_verified(_get_connection(S3),
                                                             basename(backup_path))
                                   ELSE S3
                             S5 == _invalidate_cache(S4, NULL)
                         IN [S |-> rmtree(_get_connection(S5), backup_path.zip),
                             ret |-> TRUE, exc |-> FALSE, swap |-> "done"]

----------------------------------------------------------------------------
(* The state machine: one action per public operation *)

Pack ==
    [db |-> db, committed |-> committed, in_txn |-> in_txn,
     connection |-> connection, cache |-> cache, cache_ttl |-> cache_ttl,
     now |-> now, files |-> files, temp_dirs |-> temp_dirs, taken |-> taken,
     boot |-> boot,
     nq |-> 0]

NoKey == Key(NULL, NULL, NoId)

Observation(op, key, S, raised, ok, val) ==
    [op |-> op, key |-> key, raised |-> raised, ok |-> ok, val |-> val,
     nq |-> S.nq, call |-> 1 - last.call,
     wrote |-> {tb \in Tables : S.committed[tb] # committed[tb]}]

(* The handler has run and left the object as S *)
Finish(op, key, S, raised, ok, val) ==
    /\ db' = S.db
    /\ committed' = S.committed
    /\ in_txn' = S.in_txn
    /\ connection' = S.connection
    /\ cache' = S.cache
    /\ cache_ttl' = S.cache_ttl
    /\ files' = S.files
    /\ temp_dirs' = S.temp_dirs
    /\ taken' = S.taken
    /\ boot' = S.boot
    /\ now' = now
    /\ last' = Observation(op, key, S, raised, ok, val)
    /\ clean' = IF S.committed # committed THEN DOMAIN S.cache = {}
                ELSE clean \/ DOMAIN S.cache = {}

ReadOps == {"get_by_id", "get_product_by_sku", "list_products",
            "get_customer_by_discord_id", "list_customers", "get_sale",
            "list_sales", "list_expenses", "get_inventory_history"}

NoAdj == [q0 |-> 0, calls |-> 0, n_true |-> 0, sum_true |-> 0]

Init ==
    /\ db = [EmptyDb EXCEPT !.schema_version = {[version |-> v] : v \in 2..CURRENT_VERSION}]
    /\ committed = db
    /\ in_txn = FALSE
    /\ connection = TRUE
    /\ cache = EmptyMap
    /\ cache_ttl = EmptyMap
    /\ now = 0
    /\ files = EmptyMap
    /\ temp_dirs = 0
    /\ last = [op |-> "__init__", key |-> NoKey, raised |-> FALSE, ok |-> TRUE,
               val |-> None, nq |-> 0, call |-> 0, wrote |-> {}]
    /\ clean = TRUE
    /\ adj = [p \in ProductIds |-> NoAdj]
    /\ taken = [made |-> 0, live |-> EmptyMap]
    /\ boot = Constructed

Tick ==
    /\ now + TickStep <= MaxNow
    /\ now' = now + TickStep
    /\ UNCHANGED <<db, committed, in_txn, connection, cache, cache_ttl, files,
                   temp_dirs, last, clean, adj, taken, boot>>

(* Construction, statement by statement, so that it can be interrupted     *)
(* between any two of them.                                                *)
BootStep(S) ==
    /\ db' = S.db
    /\ committed' = S.committed
    /\ in_txn' = S.in_txn
    /\ connection' = S.connection
    /\ cache' = S.cache
    /\ cache_ttl' = S.cache_ttl
    /\ boot' = S.boot
    /\ UNCHANGED <<now, files, temp_dirs, last, clean, adj, taken>>

(* A new process: the object's fields as __init__ first sets them *)
NewObject(S) ==
    [S EXCEPT !.connection = FALSE, !.in_txn = FALSE, !.db = S.committed,
              !.cache = EmptyMap, !.cache_ttl = EmptyMap]

InitFile ==
    \E v0 \in 0..CURRENT_VERSION :
        /\ db = FileAt(v0)
        /\ committed = db
        /\ in_txn = FALSE
        /\ connection = FALSE
        /\ cache = EmptyMap
        /\ cache_ttl = EmptyMap
        /\ now = 0
        /\ files = EmptyMap
        /\ temp_dirs = 0
        /\ last = [op |-> "__init__", key |-> NoKey, raised |-> FALSE, ok |-> TRUE,
                   val |-> None, nq |-> 0, call |-> 0, wrote |-> {}]
        /\ clean = TRUE
        /\ adj = [p \in ProductIds |-> NoAdj]
        /\ taken = [made |-> 0, live |-> EmptyMap]
        /\ boot = [pc |-> "file", version |-> 0, v0 |-> 0, rows0 |-> {},
                   ran |-> <<>>, schema |-> {r.version : r \in db.schema_version},
                   constructions |-> 0, completed |-> FALSE, interrupted |-> FALSE,
                   todo |-> {}, crashed_at |-> ""]

Construct(n) ==
    /\ boot.pc \in {"file", "done", "crashed"}
    /\ boot.constructions < n
    /\ BootStep([NewObject(Pack) EXCEPT
           !.boot = [boot EXCEPT !.pc = "_initialize_database",
                                 !.version = 0,
                                 !.v0 = _get_current_schema_version(committed),
                                 !.rows0 = committed.schema_version,
                                 !.ran = <<>>,
                                 !.todo = {},
                                 !.constructions = @ + 1,
                                 !.completed = @ \/ boot.pc = "done",
                                 !.interrupted = boot.pc = "crashed"]])

InitializeDatabase ==
    /\ boot.pc = "_initialize_database"
    /\ BootStep([commit(_get_connection(Pack)) EXCEPT !.boot.pc = "_apply_migrations"])

(* _apply_migrations up to the loop *)
CheckVersion ==
    /\ boot.pc = "_apply_migrations"
    /\ LET S == _get_connection(Pack)
           current_version == _get_current_schema_version(S.db)
       IN BootStep([S EXCEPT
              !.boot.pc = IF current_version < CURRENT_VERSION THEN "for" ELSE "done",
              !.boot.todo = IF current_version < CURRENT_VERSION
                            THEN migration_range(current_version) ELSE {}])

(* The head of the loop: the next version, and its script if it has one *)
ExecuteScript ==
    /\ boot.pc = "for"
    /\ IF boot.todo = {}
       THEN BootStep([Pack EXCEPT !.boot.pc = "done"])
       ELSE LET version == CHOOSE v \in boot.todo : \A w \in boot.todo : v <= w
            IN IF _get_migration_sql(version)
               THEN BootStep([commit(Pack) EXCEPT
                        !.boot.pc = "_update_schema_version",
                        !.boot.version = version,
                        !.boot.ran = Append(@, version),
                        !.boot.schema = @ \cup {version}])
               ELSE BootStep([Pack EXCEPT !.boot.todo = @ \ {version}])

(* The rest of the loop body; an exception leaves __init__ *)
RecordVersion ==
    /\ boot.pc = "_update_schema_version"
    /\ LET r == _update_schema_version(Pack, boot.version)
       IN IF r.exc
          THEN BootStep([r.S EXCEPT !.boot.pc = "raised"])
          ELSE BootStep([commit(r.S) EXCEPT !.boot.pc = "for",
                                            !.boot.todo = @ \ {boot.version}])

(* The process dies inside __init__: what was not committed is lost *)
Interrupt ==
    /\ boot.pc \in {"_initialize_database", "_apply_migrations", "for",
                    "_update_schema_version"}
    /\ BootStep([NewObject(Pack) EXCEPT !.boot.pc = "crashed",
                                        !.boot.crashed_at = boot.pc])

(* Each action takes the bounds of its inputs: n bounds a table's rows or   *)
(* the calls made, ids is the range its id arguments are drawn from.        *)

AddProduct(n) ==
    \E sku \in Skus, q \in InitialQuantities :
        /\ Cardinality(db.products) < n
        /\ LET r == add_product(Pack, [sku |-> sku, quantity |-> q])
           IN /\ Finish("add_product", Key("add_product", sku, r.id), r.S, r.exc,
                        ~r.exc, None)
              /\ adj' = IF r.exc THEN adj ELSE [adj EXCEPT ![r.id] = [NoAdj EXCEPT !.q0 = q]]

(* Products with any SKU, None included, and SKUs being changed *)
AnySku == Skus \cup {NULL}

AddAnyProduct(n) ==
    \E sku \in AnySku, q \in InitialQuantities :
        /\ Cardinality(db.products) < n
        /\ LET r == add_product(Pack, [sku |-> sku, quantity |-> q])
           IN /\ Finish("add_product", Key("add_product", sku, r.id), r.S, r.exc,
                        ~r.exc, None)
              /\ adj' = IF r.exc THEN adj ELSE [adj EXCEPT ![r.id] = [NoAdj EXCEPT !.q0 = q]]

UpdateSku(ids) ==
    \E pid \in ids, sku \in AnySku :
        /\ LET r == update_product(Pack, pid, [sku |-> sku])
           IN Finish("update_product", Key("update_product", sku, pid), r.S, r.exc,
                     r.ret, None)
        /\ UNCHANGED adj

AdjustQuantity(ids, n) ==
    \E pid \in ids, d \in Deltas, u \in Users :
        /\ adj[pid].calls < n
        /\ LET r == adjust_product_quantity(Pack, pid, d, u)
           IN /\ Finish("adjust_product_quantity",
                        Key("adjust_product_quantity", u, pid), r.S, FALSE, r.ret, None)
              /\ adj' = [adj EXCEPT ![pid] =
                            [@ EXCEPT !.calls = @ + 1,
                                      !.n_true = IF r.ret THEN @ + 1 ELSE @,
                                      !.sum_true = IF r.ret THEN @ + d ELSE @]]

LogAudit(n) ==
    \E u \in Users :
        /\ Cardinality(db.audit_log) < n
        /\ LET r == log_audit(Pack, "adjust_quantity", "product", NoId, u)
           IN Finish("log_audit", Key("log_audit", u, r.id), r.S, r.exc, ~r.exc, None)
        /\ UNCHANGED adj

UpdateProduct(ids) ==
    \E pid \in ids, q \in InitialQuantities :
        /\ LET r == update_product(Pack, pid, [quantity |-> q + 1])
           IN Finish("update_product", Key("update_product", NULL, pid), r.S, r.exc,
                     r.ret, None)
        /\ UNCHANGED adj

DeleteProduct(ids) ==
    \E pid \in ids :
        /\ LET r == delete(Pack, "products", pid)
           IN Finish("delete", Key("delete", "products", pid), r.S, r.exc,
                     r.rowcount > 0, None)
        /\ UNCHANGED adj

AddCustomer(n) ==
    \E d \in DiscordIds :
        /\ Cardinality(db.customers) < n
        /\ LET r == add_customer(Pack, [discord_id |-> d, name |-> "Ann"])
           IN Finish("add_customer", Key("add_customer", d, r.id), r.S, r.exc, ~r.exc, None)
        /\ UNCHANGED adj

AddExpense(n) ==
    /\ Cardinality(db.expenses) < n
    /\ LET r == add_expense(Pack, [amount |-> 1])
       IN Finish("add_expense", Key("add_expense", NULL, r.id), r.S, r.exc, ~r.exc,
                 [kind |-> "write", cached |-> DOMAIN cache])
    /\ UNCHANGED adj

SaleLines(ids, maxlines) ==
    UNION {[1..k -> [product_id : ids, quantity : SaleQuantities]] : k \in 1..maxlines}

AddSale(n, ids, custs, maxlines) ==
    \E cust \in {NoId} \cup custs, lines \in SaleLines(ids, maxlines) :
        /\ Cardinality(db.sales) < n
        /\ LET r == add_sale(Pack, [customer_id |-> cust], lines)
           IN Finish("add_sale", Key("add_sale", NULL, r.id), r.S, r.exc, ~r.exc,
                     [kind |-> "lines", lines |-> lines])
        /\ UNCHANGED adj

Read(op, r, key) ==
    /\ Finish(op, key, r.S, FALSE, TRUE, r.val)
    /\ UNCHANGED adj

GetProduct(ids) ==
    \E id \in ids :
        Read("get_by_id", get_product(Pack, id), Key("_get_by_id_impl", "products", id))

GetCustomer(ids) ==
    \E id \in ids :
        Read("get_by_id", get_customer(Pack, id), Key("_get_by_id_impl", "customers", id))

GetSaleRow(ids) ==
    \E id \in ids :
        Read("get_by_id", get_by_id(Pack, "sales", id), Key("_get_by_id_impl", "sales", id))

GetProductBySku ==
    \E sku \in Skus :
        Read("get_product_by_sku", get_product_by_sku(Pack, sku),
             Key("_get_product_by_sku_impl", sku, NoId))

ListProducts ==
    Read("list_products", list_products(Pack), Key("_list_products_impl", NULL, NoId))

GetCustomerByDiscordId ==
    \E d \in DiscordIds :
        Read("get_customer_by_discord_id", get_customer_by_discord_id(Pack, d),
             Key("_get_customer_by_discord_id_impl", d, NoId))

ListCustomers ==
    Read("list_customers", list_customers(Pack), Key("_list_customers_impl", NULL, NoId))

GetSale(ids) ==
    \E id \in ids :
        Read("get_sale", get_sale(Pack, id), Key("_get_sale_impl", NULL, id))

ListSales ==
    Read("list_sales", list_sales(Pack), Key("_list_sales_impl", NULL, NoId))

ListExpenses ==
    Read("list_expenses", list_expenses(Pack), Key("_list_expenses_impl", NULL, NoId))

GetInventoryHistory ==
    Read("get_inventory_history", get_inventory_history(Pack),
         Key("_get_inventory_history_impl", NULL, NoId))

(* How the call went: what opening the artifact gave, how far the swap of   *)
(* restore_database got, and the keys the cache held when it was called     *)
Opened(read, swap) ==
    [kind |-> "opened", read |-> read, swap |-> swap, cached |-> DOMAIN cache]

(* verify_backup_integrity extracts the archive and hashes the database     *)
(* file; it does not open it as a database                                  *)
ExtractOutcomes(S, backup_path) == OpenOutcomes(S, backup_path) \cap {"intact", "bad_zip"}

(* Backup artifacts: handlers are called with the paths of the artifacts on *)
(* disk, or with the path of one that may not exist.                        *)
BackupPaths == DOMAIN files \cup {Path(0, FALSE)}
PathKey(op, path) == Key(op, Ext(path), path.stamp)
PathOf(key) == Path(key.n, key.s = "zip")

BackupDatabase(n, failures) ==
    \E compress \in BOOLEAN :
        \E fails \in {"done"} \cup (failures \cap BackupOutcomes(compress)) :
            /\ taken.made < n
            /\ LET r == backup_database(Pack, compress, fails)
                   live == [tables |-> r.S.committed, backup_id |-> r.id]
                   written == {p \in DOMAIN r.S.files :
                                  \/ p = r.path /\ ~r.exc
                                  \/ p \notin DOMAIN files
                                  \/ r.S.files[p] # files[p]}
               IN Finish("backup_database", PathKey("backup_database", r.path),
                         [r.S EXCEPT !.taken =
                             [made |-> taken.made + 1,
                              live |-> [p \in DOMAIN r.S.files |->
                                           IF p \in written
                                           THEN live ELSE taken.live[p]]]],
                         r.exc, ~r.exc, [kind |-> "backup", fails |-> fails])
            /\ UNCHANGED adj

VerifyBackup ==
    \E p \in BackupPaths :
        \E read \in ExtractOutcomes(Pack, p) :
            /\ LET r == verify_backup_integrity(Pack, p, read)
               IN Finish("verify_backup_integrity",
                         PathKey("verify_backup_integrity", p),
                         r.S, FALSE, r.ret, Opened(read, "not reached"))
            /\ UNCHANGED adj

RestoreDatabase ==
    \E p \in BackupPaths, verify_integrity \in BOOLEAN :
        \E read \in OpenOutcomes(Pack, p) :
            /\ LET r == restore_database(Pack, p, verify_integrity, read)
               IN Finish("restore_database",
                         PathKey(IF verify_integrity THEN "verify_integrity=True"
                                 ELSE "verify_integrity=False", p),
                         r.S, r.exc, r.ret, Opened(read, r.swap))
            /\ UNCHANGED adj

(* What can happen to an artifact on disk between two calls *)
FileChange(changed) ==
    /\ files' = changed
    /\ UNCHANGED <<db, committed, in_txn, connection, cache, cache_ttl, now,
                   temp_dirs, last, clean, adj, taken, boot>>

FlipByte ==
    \E p \in DOMAIN files :
        /\ files[p].bytes.flip = 0
        /\ FileChange([files EXCEPT ![p].bytes.flip = 1])

DeleteSidecar ==
    \E p \in DOMAIN files :
        /\ files[p].sidecar
        /\ FileChange([files EXCEPT ![p].sidecar = FALSE])

StripChecksum ==
    \E p \in DOMAIN files :
        /\ files[p].sidecar /\ files[p].has_checksum
        /\ FileChange([files EXCEPT ![p].has_checksum = FALSE])

(* What a cached read returns when the cache holds nothing *)
CallRead(S, key) ==
    CASE key.func = "_get_by_id_impl" -> get_by_id(S, key.s, key.n)
      [] key.func = "_get_product_by_sku_impl" -> get_product_by_sku(S, key.s)
      [] key.func = "_list_products_impl" -> list_products(S)
      [] key.func = "_get_customer_by_discord_id_impl" ->
            get_customer_by_discord_id(S, key.s)
      [] key.func = "_list_customers_impl" -> list_customers(S)
      [] key.func = "_get_sale_impl" -> get_sale(S, key.n)
      [] key.func = "_list_sales_impl" -> list_sales(S)
      [] key.func = "_list_expenses_impl" -> list_expenses(S)
      [] key.func = "_get_inventory_history_impl" -> get_inventory_history(S)

Fresh(key) ==
    CallRead([Pack EXCEPT !.cache = EmptyMap, !.cache_ttl = EmptyMap], key).val

(* The tables the query of a cached read selects from *)
ReadsTables(key) ==
    CASE key.func = "_get_by_id_impl" -> {key.s}
      [] key.func = "_get_product_by_sku_impl" -> {"products"}
      [] key.func = "_list_products_impl" -> {"products"}
      [] key.func = "_get_customer_by_discord_id_impl" -> {"customers"}
      [] key.func = "_list_customers_impl" -> {"customers"}
      [] key.func = "_get_sale_impl" -> {"sales", "sale_items", "products", "customers"}
      [] key.func = "_list_sales_impl" -> {"sales", "customers"}
      [] key.func = "_list_expenses_impl" -> {"expenses"}
      [] key.func = "_get_inventory_history_impl" -> {"inventory_history", "products"}
      [] OTHER -> {}

(* Sales: products, customers and sales being added and read back *)
NextSale ==
    \/ AddProduct(MaxProducts)
    \/ AddCustomer(MaxCustomers)
    \/ AddSale(MaxSales, ProductIds, 1..MaxCustomers, MaxLines)
    \/ GetProduct(ProductIds)

SpecSale == Init /\ [][NextSale]_vars

(* Stock under sales: products being added, read through the cache and sold *)
NextStock ==
    \/ AddProduct(MaxProducts)
    \/ AddSale(CacheRows, ProductIds, {}, MaxLines)
    \/ GetProduct(ProductIds)

SpecStock == Init /\ [][NextStock]_vars

(* The ledger: the first product's stock moved by sales and by adjustments *)
NextLedger ==
    \/ AddProduct(CacheRows)
    \/ AddSale(CacheRows, {1}, {}, CacheRows)
    \/ AdjustQuantity({1}, MaxAdjust)

SpecLedger == Init /\ [][NextLedger]_vars

(* Stock adjustments: adjust_product_quantity is the only writer of quantity *)
NextAdjust ==
    \/ AddProduct(MaxProducts)
    \/ AdjustQuantity(ProductIds, MaxAdjust)
    \/ GetProduct(ProductIds)

SpecAdjust == Init /\ [][NextAdjust]_vars

(* The cache over the product reads and the writes to products *)
NextCacheProducts ==
    \/ AddProduct(CacheRows)
    \/ AdjustQuantity(1..CacheRows, CacheRows)
    \/ UpdateProduct(1..CacheRows)
    \/ DeleteProduct(1..CacheRows)
    \/ GetProduct(1..CacheRows)
    \/ GetProductBySku
    \/ ListProducts
    \/ GetInventoryHistory

SpecCacheProducts == Init /\ [][NextCacheProducts]_vars

(* The cache over the sale, customer and expense reads *)
NextCacheSales ==
    \/ AddProduct(CacheRows)
    \/ AddCustomer(CacheRows)
    \/ AddSale(CacheRows, 1..CacheRows, 1..CacheRows, CacheRows)
    \/ AddExpense(CacheRows)
    \/ GetSaleRow(1..CacheRows)
    \/ GetSale(1..CacheRows)
    \/ ListSales
    \/ GetCustomer(1..CacheRows)
    \/ GetCustomerByDiscordId
    \/ ListCustomers
    \/ ListExpenses

SpecCacheSales == Init /\ [][NextCacheSales]_vars

(* The cache and the clock: entries of both TTLs being stored, served and   *)
(* expiring                                                                 *)
NextCacheClock ==
    \/ AddProduct(CacheRows)
    \/ AddExpense(CacheRows)
    \/ GetProduct(1..CacheRows)
    \/ ListExpenses
    \/ Tick

SpecCacheClock == Init /\ [][NextCacheClock]_vars

(* The cache at its capacity: get_product has been called for the ids       *)
(* 1..n of products that do not exist, one call a second from time 0 on     *)
(* (the wrapper stores the None it got), and it is now the time the first   *)
(* of these entries expires; then reads, writes and the clock go on.        *)
FullIds == (max_cache_size - 1)..(max_cache_size + 1)

(* Reads go on until the entry of product MaxEvictions has been evicted,    *)
(* and again once a write has emptied the cache                             *)
ReadsGoOn ==
    \/ Key("_get_by_id_impl", "products", MaxEvictions) \in DOMAIN cache
    \/ Cardinality(DOMAIN cache) < max_cache_size - 1

InitFull ==
    \E n \in {max_cache_size - 1, max_cache_size} :
        /\ db = [EmptyDb EXCEPT !.schema_version = {[version |-> v] : v \in 2..CURRENT_VERSION}]
        /\ committed = db
        /\ in_txn = FALSE
        /\ connection = TRUE
        /\ cache = [k \in {Key("_get_by_id_impl", "products", i) : i \in 1..n} |-> None]
        /\ cache_ttl = [k \in DOMAIN cache |-> (k.n - 1) + default_ttl]
        /\ now = default_ttl
        /\ files = EmptyMap
        /\ temp_dirs = 0
        /\ last = [op |-> "get_by_id", key |-> Key("_get_by_id_impl", "products", n),
                   raised |-> FALSE, ok |-> TRUE, val |-> None, nq |-> 1, call |-> 0,
                   wrote |-> {}]
        /\ clean = FALSE
        /\ adj = [p \in ProductIds |-> NoAdj]
        /\ taken = [made |-> 0, live |-> EmptyMap]
        /\ boot = Constructed

NextCacheFull ==
    \/ AddProduct(CacheRows)
    \/ AddExpense(CacheRows)
    \/ ReadsGoOn /\ GetProduct(FullIds)
    \/ ReadsGoOn /\ ListExpenses
    \/ Tick

SpecCacheFull == InitFull /\ [][NextCacheFull]_vars

(* The handle: closed and asked for between writes and reads *)
Handle(was) == [kind |-> "handle", was |-> was]

GetConnection ==
    /\ Finish("_get_connection", NoKey, _get_connection(Pack), FALSE, TRUE,
              Handle(connection))
    /\ UNCHANGED adj

Close ==
    /\ Finish("close", NoKey, close(Pack), FALSE, TRUE, Handle(connection))
    /\ UNCHANGED adj

NextConnection ==
    \/ AddAnyProduct(MaxProducts)
    \/ GetProduct(ProductIds)
    \/ GetConnection
    \/ Close

SpecConnection == Init /\ [][NextConnection]_vars

(* The catalogue: products being added and their SKUs changed *)
NextCatalog ==
    \/ AddAnyProduct(MaxProducts)
    \/ UpdateSku(ProductIds)
    \/ GetProduct(ProductIds)

SpecCatalog == Init /\ [][NextCatalog]_vars

(* Construction, repeated and interrupted, on files of every version *)
NextMigrate ==
    \/ Construct(MaxConstructions)
    \/ InitializeDatabase
    \/ CheckVersion
    \/ ExecuteScript
    \/ RecordVersion
    \/ Interrupt

SpecMigrate == InitFile /\ [][NextMigrate]_vars

(* The same, with a construction that is not interrupted running on *)
SpecMigrateLive ==
    SpecMigrate
        /\ WF_vars(InitializeDatabase \/ CheckVersion \/ ExecuteScript \/ RecordVersion)

(* Backups: the live database being added to, backed up, verified and      *)
(* restored, and the artifacts being damaged on disk                        *)
NextBackup ==
    \/ AddExpense(MaxExpenses)
    \/ BackupDatabase(MaxBackups, {})
    \/ VerifyBackup
    \/ RestoreDatabase
    \/ FlipByte
    \/ DeleteSidecar
    \/ StripChecksum

SpecBackup == Init /\ [][NextBackup]_vars

(* The backup log: backups being taken one after another, some of them      *)
(* failing, and verified                                                    *)
NextBackupLog ==
    \/ AddExpense(MaxExpenses)
    \/ BackupDatabase(MaxBackups + 1, WriteFailures)
    \/ VerifyBackup

SpecBackupLog == Init /\ [][NextBackupLog]_vars

(* Verification: artifacts written at the same and at different times,      *)
(* verified and restored, with and without the checksum in their sidecar    *)
NextVerified ==
    \/ BackupDatabase(MaxBackups + 1, {})
    \/ VerifyBackup
    \/ RestoreDatabase
    \/ StripChecksum
    \/ Tick

SpecVerified == Init /\ [][NextVerified]_vars

(* An artifact that an earlier release of the program wrote, with the       *)
(* schema of its time, is put in the backup directory                       *)
EarlierArtifact ==
    \E v0 \in 0..(CURRENT_VERSION - 1), compress \in BOOLEAN :
        LET path == Path(now, compress)
            bytes == DbFile(FileAt(v0))
        IN /\ path \notin DOMAIN files
           /\ files' = Put(files, path,
                           [bytes |-> bytes, sidecar |-> TRUE, has_checksum |-> TRUE,
                            checksum |-> backup_checksum(bytes, compress)])
           /\ taken' = [taken EXCEPT !.live =
                            Put(@, path, [tables |-> bytes.tables, backup_id |-> NoId])]
           /\ UNCHANGED <<db, committed, in_txn, connection, cache, cache_ttl, now,
                          temp_dirs, last, clean, adj, boot>>

(* Upgrades: the database backed up and restored from artifacts of this     *)
(* release and of earlier ones                                              *)
NextUpgrade ==
    \/ AddExpense(MaxExpenses)
    \/ BackupDatabase(MaxBackups, {})
    \/ RestoreDatabase
    \/ EarlierArtifact

SpecUpgrade == Init /\ [][NextUpgrade]_vars

(* The audit log: audit rows being written, and the database being backed   *)
(* up and restored                                                          *)
NextAudit ==
    \/ LogAudit(MaxAdjust)
    \/ BackupDatabase(MaxBackups, {})
    \/ RestoreDatabase

SpecAudit == Init /\ [][NextAudit]_vars

(* Restore under reads: expenses being added and listed through the cache,  *)
(* and the database being backed up and restored                            *)
NextRestore ==
    \/ AddExpense(MaxExpenses)
    \/ ListExpenses
    \/ BackupDatabase(MaxBackups, {})
    \/ RestoreDatabase
    \/ DeleteSidecar

SpecRestore == Init /\ [][NextRestore]_vars

----------------------------------------------------------------------------
(* A step is a handler call whose observation is last' (the clock does not  *)
(* call a handler; last.call alternates so that a call that leaves every    *)
(* field as it was is still a step).                                        *)
Called(op) == last'.call # last.call /\ last'.op = op
CalledRead == last'.call # last.call /\ last'.op \in ReadOps

(* C1: when add_sale has raised, the sales table, the sale_items table and  *)
(* every product quantity are as they were before the call.                 *)
C1_AddSaleAtomic ==
    [][(Called("add_sale") /\ last'.raised) =>
           /\ committed'.sales = committed.sales
           /\ committed'.sale_items = committed.sale_items
           /\ committed'.products = committed.products]_vars

(* C2: when adjust_product_quantity has returned False, the product's       *)
(* quantity, audit_log and inventory_history are as they were before it.    *)
C2_AdjustAllOrNothing ==
    [][(Called("adjust_product_quantity") /\ ~last'.ok) =>
           /\ committed'.products = committed.products
           /\ committed'.audit_log = committed.audit_log
           /\ committed'.inventory_history = committed.inventory_history]_vars

(* C7: with adjust_product_quantity the only writer, a product's quantity   *)
(* is its initial quantity plus the deltas of the calls that returned True, *)
(* it has one inventory_history row per such call, and every row has        *)
(* new_quantity - previous_quantity = change_amount.                        *)
C7_QuantityHistoryPairing ==
    \A p \in committed.products :
        /\ p.quantity = adj[p.product_id].q0 + adj[p.product_id].sum_true
        /\ Cardinality({h \in committed.inventory_history : h.product_id = p.product_id})
               = adj[p.product_id].n_true
        /\ \A h \in committed.inventory_history :
               h.new_quantity - h.previous_quantity = h.change_amount

(* C3: the call of a cached read that follows a committed write to a table  *)
(* its query reads returns the current database contents.                   *)
C3_FreshAfterWrite ==
    [][(CalledRead /\ last.wrote \cap ReadsTables(last'.key) # {}) =>
           last'.val = Fresh(last'.key)]_vars

(* C4: while no write has happened since the cache was filled, a read       *)
(* returns what it returns with an empty cache.                             *)
C4_CacheTransparent ==
    (last.op \in ReadOps /\ clean) => last.val = Fresh(last.key)

(* C8: the second of two successive calls f(a), f(a) within the entry's TTL *)
(* returns the same result and executes no query.                           *)
C8_SecondCallIsHit ==
    [][(/\ CalledRead
        /\ last.op = last'.op
        /\ last.key = last'.key
        /\ last.key \in DOMAIN cache_ttl
        /\ now <= cache_ttl[last.key]) =>
           (last'.val = last.val /\ last'.nq = 0)]_vars

----------------------------------------------------------------------------
(* Claims about backup, verification and restore.  A step of                *)
(* verify_backup_integrity or restore_database is about the artifact        *)
(* Artifact' (the artifact files hold at the path the call was given).      *)
ArtifactPath == PathOf(last'.key)
Artifact == files[ArtifactPath]
AsWritten(a) == a.bytes.flip = 0 /\ a.sidecar /\ a.has_checksum

(* C5: restore_database(path, verify_integrity=True) returns False and      *)
(* leaves the live database as it was unless verify_backup_integrity(path)  *)
(* returns True for the artifact.                                           *)
C5_RestoreOnlyVerified ==
    [][(/\ Called("restore_database")
        /\ last'.key.func = "verify_integrity=True"
        /\ ~(ArtifactPath \in DOMAIN files /\ VerifyPasses(Artifact)))
           => (~last'.ok /\ committed' = committed)]_vars

(* C6 as stated: a successful restore of a backup whose database file is as *)
(* written leaves every table, backup_log included, as it was when          *)
(* backup_database returned.                                                *)
C6_RestoreRoundTrip ==
    [][(/\ Called("restore_database")
        /\ last'.ok
        /\ Artifact.bytes.flip = 0)
           => committed' = taken.live[ArtifactPath].tables]_vars

(* C6 amended: a successful restore of a backup whose database file is as   *)
(* written leaves every table other than backup_log as it was when          *)
(* backup_database returned; backup_log does not hold the row that          *)
(* backup_database recorded for this backup.                                *)
C6_RestoreRoundTripButBackupLog ==
    [][(/\ Called("restore_database")
        /\ last'.ok
        /\ Artifact.bytes.flip = 0)
           => /\ \A t \in Tables \ {"backup_log"} :
                     committed'[t] = taken.live[ArtifactPath].tables[t]
              /\ \A r \in committed'.backup_log :
                     r.backup_id # taken.live[ArtifactPath].backup_id]_vars

(* A restore has succeeded from an artifact as written and has undone an    *)
(* expense added after the backup.                                          *)
C6_Witness ==
    /\ last.op = "restore_database"
    /\ last.ok
    /\ PathOf(last.key) \in DOMAIN files
    /\ files[PathOf(last.key)].bytes.flip = 0
    /\ {"expenses", "backup_log"} \subseteq last.wrote

(* C9: verify_backup_integrity of an artifact that is as backup_database    *)
(* wrote it returns True, compressed or not.                                *)
C9_BackupThenVerify ==
    [][(/\ Called("verify_backup_integrity")
        /\ ArtifactPath \in DOMAIN files
        /\ AsWritten(Artifact))
           => last'.ok]_vars

(* A compressed backup, as written, has been verified and marked so *)
C9_Witness ==
    /\ last.op = "verify_backup_integrity"
    /\ last.ok
    /\ PathOf(last.key).zip
    /\ PathOf(last.key) \in DOMAIN files
    /\ AsWritten(files[PathOf(last.key)])
    /\ \E r \in committed.backup_log :
           r.filename = basename(PathOf(last.key)) /\ r.compressed = 1 /\ r.verified = 1

(* C10: verify_backup_integrity of an artifact whose database file differs  *)
(* from the file that was hashed, with the sidecar as written, returns      *)
(* False, compressed or not.                                                *)
C10_TamperedFailsVerify ==
    [][(/\ Called("verify_backup_integrity")
        /\ ArtifactPath \in DOMAIN files
        /\ Artifact.bytes.flip = 1
        /\ Artifact.sidecar /\ Artifact.has_checksum)
           => ~last'.ok]_vars

(* A verification has failed on a compressed artifact with a changed byte   *)
(* and its sidecar as written                                               *)
C10_Witness ==
    /\ last.op = "verify_backup_integrity"
    /\ ~last.ok
    /\ PathOf(last.key) \in DOMAIN files
    /\ PathOf(last.key).zip
    /\ files[PathOf(last.key)].bytes.flip = 1
    /\ files[PathOf(last.key)].sidecar
    /\ files[PathOf(last.key)].has_checksum

----------------------------------------------------------------------------
(* Claims about the catalogue *)
SkuTaken(sku, except_id) ==
    /\ sku # NULL
    /\ \E p \in committed.products : p.sku = sku /\ p.product_id # except_id

(* C11: no two products rows share a non-null SKU; add_product or           *)
(* update_product with an SKU another row holds raises and leaves the       *)
(* products table as it was.                                                *)
C11_SkuUnique ==
    [][/\ \A p, q \in committed'.products :
              (p.sku = q.sku /\ p.sku # NULL) => p = q
       /\ (Called("add_product") /\ SkuTaken(last'.key.s, NoId))
              => (last'.raised /\ committed'.products = committed.products)
       /\ (Called("update_product") /\ SkuTaken(last'.key.s, last'.key.n)
              /\ Exists(committed, "products", last'.key.n))
              => (last'.raised /\ committed'.products = committed.products)]_vars

(* An add_product with the SKU of the one product there is has raised *)
C11_Witness ==
    /\ last.op = "add_product"
    /\ last.raised
    /\ last.key.s # NULL
    /\ Cardinality(committed.products) = 1
    /\ \E p \in committed.products : p.sku = last.key.s

----------------------------------------------------------------------------
(* Claims about construction and migrations *)
RECURSIVE ScriptedFrom(_)
ScriptedFrom(v) ==
    IF v > CURRENT_VERSION THEN <<>>
    ELSE (IF v \in {2, 3} THEN <<v>> ELSE <<>>) \o ScriptedFrom(v + 1)

IsPrefix(s, t) == Len(s) <= Len(t) /\ \A i \in 1..Len(s) : s[i] = t[i]
Recorded == {r.version : r \in committed.schema_version}
Ran == {boot.ran[i] : i \in 1..Len(boot.ran)}
Constructing ==
    boot.pc \in {"_initialize_database", "_apply_migrations", "for",
                 "_update_schema_version"}
AtCurrentVersion == Recorded # {} /\ \A v \in Recorded : v <= CURRENT_VERSION
                                  /\ CURRENT_VERSION \in Recorded

(* C12: a construction on a file on which a construction has completed      *)
(* executes no migration script and leaves schema_version as it found it.   *)
C12_SecondConstructionIdempotent ==
    boot.completed =>
        /\ boot.ran = <<>>
        /\ committed.schema_version = boot.rows0
        /\ boot.pc # "raised"

(* A second construction has completed on the same file *)
C12_Witness ==
    /\ boot.completed
    /\ boot.pc = "done"
    /\ boot.constructions >= 2

(* C13: a construction that found version v0 executes the scripted versions *)
(* above v0 in increasing order, each once, records each right after         *)
(* executing it, and unless interrupted ends with the current version       *)
(* CURRENT_VERSION and exactly those scripts executed.                      *)
C13_MigrationsInOrder ==
    /\ [](/\ IsPrefix(boot.ran, ScriptedFrom(boot.v0 + 1))
          /\ boot.pc # "raised"
          /\ Constructing =>
                 Ran \ Recorded
                     \subseteq (IF boot.pc = "_update_schema_version"
                                THEN {boot.version} ELSE {})
          /\ boot.pc = "done" =>
                 /\ boot.ran = ScriptedFrom(boot.v0 + 1)
                 /\ Recorded = {r.version : r \in boot.rows0} \cup Ran
                 /\ AtCurrentVersion)
    /\ (Constructing ~> boot.pc \in {"done", "crashed"})

(* A construction on a file at version 2 has completed and has executed     *)
(* the script of version 3 only                                             *)
C13_Witness ==
    /\ boot.pc = "done"
    /\ boot.v0 = 2
    /\ boot.ran = <<3>>
    /\ ~boot.interrupted

(* C14: a recorded version stays recorded whatever happens, an interruption *)
(* included; the construction that follows an interrupted one executes the  *)
(* scripts of the versions not recorded, in order, and unless interrupted   *)
(* itself ends with the current version CURRENT_VERSION.                    *)
C14_ResumeAfterInterruption ==
    /\ [][{r.version : r \in committed.schema_version}
              \subseteq {r.version : r \in committed'.schema_version}]_vars
    /\ [](boot.interrupted =>
              /\ boot.rows0 \subseteq committed.schema_version
              /\ IsPrefix(boot.ran, ScriptedFrom(boot.v0 + 1))
              /\ \A v \in Ran : [version |-> v] \notin boot.rows0
              /\ boot.pc = "done" => (AtCurrentVersion
                                        /\ boot.ran = ScriptedFrom(boot.v0 + 1)))
    /\ ((boot.interrupted /\ Constructing) ~> boot.pc \in {"done", "crashed"})

(* A construction has completed after one that was interrupted between the  *)
(* script of version 3 and its schema_version row: it has executed that     *)
(* script again and recorded it                                             *)
C14_Witness ==
    /\ boot.pc = "done"
    /\ boot.interrupted
    /\ boot.v0 = 2
    /\ boot.ran = <<3>>
    /\ boot.rows0 = {[version |-> 2]}
    /\ boot.crashed_at = "_update_schema_version"

----------------------------------------------------------------------------
(* Claims about how restore_database and verify_backup_integrity end *)

(* C15: when restore_database has closed the live connection, the           *)
(* connection is open again when the call returns; an exception during the  *)
(* swap gives the return value False and no exception; and the operation    *)
(* that follows a restore, whatever its outcome, is carried out.            *)
C15_RestoreReopensConnection ==
    [][/\ Called("restore_database") =>
              /\ (last'.val.swap # "not reached" => connection')
              /\ (last'.val.swap = "raised" => ~last'.raised /\ ~last'.ok)
       /\ (last.op = "restore_database" /\ Called("add_expense")) =>
              /\ ~last'.raised
              /\ Cardinality(committed'.expenses) = Cardinality(committed.expenses) + 1
      ]_vars

(* The swap of a restore has raised on a malformed database file; the call  *)
(* has returned False and the connection is open                            *)
C15_Witness ==
    /\ last.op = "restore_database"
    /\ last.val.swap = "raised"
    /\ ~last.ok
    /\ ~last.raised
    /\ connection

(* C18: a temporary extraction directory that verify_backup_integrity or    *)
(* restore_database has created is gone when the call ends, whether it      *)
(* returns True, returns False or lets an exception through.                *)
C18_TempDirRemoved ==
    [][(Called("verify_backup_integrity") \/ Called("restore_database"))
           => temp_dirs' = 0]_vars

(* A restore of a compressed artifact has let BadZipFile through, and no    *)
(* extraction directory is left                                             *)
C18_Witness ==
    /\ last.op = "restore_database"
    /\ last.raised
    /\ last.val.read = "bad_zip"
    /\ PathOf(last.key).zip
    /\ temp_dirs = 0

(* C16: when restore_database has returned True the cache holds no entry,   *)
(* and the cached read called next returns what the restored database       *)
(* holds.                                                                   *)
C16_RestoreClearsCache ==
    [][/\ (Called("restore_database") /\ last'.ok) =>
              (DOMAIN cache' = {} /\ DOMAIN cache_ttl' = {})
       /\ (last.op = "restore_database" /\ last.ok /\ CalledRead) =>
              last'.val = Fresh(last'.key)
      ]_vars

(* A restore called while the list of expenses was cached has returned      *)
(* True and changed the expenses table, and the cache is empty              *)
C16_Witness ==
    /\ last.op = "restore_database"
    /\ last.ok
    /\ Key("_list_expenses_impl", NULL, NoId) \in last.val.cached
    /\ "expenses" \in last.wrote
    /\ cache = EmptyMap

(* C17: backup_database inserts its backup_log row as its last step: when   *)
(* the copy, the sidecar or the archive fails the error reaches the caller  *)
(* and backup_log is as it was, and a call that succeeds adds one           *)
(* backup_log row, whose filename is the basename of the returned path.     *)
C17_BackupRecordLast ==
    [][Called("backup_database") =>
           /\ last'.val.fails # "done" =>
                  (last'.raised /\ committed'.backup_log = committed.backup_log)
           /\ last'.val.fails = "done" =>
                  /\ ~last'.raised
                  /\ committed.backup_log \subseteq committed'.backup_log
                  /\ \E r \in committed'.backup_log \ committed.backup_log :
                         /\ committed'.backup_log = committed.backup_log \cup {r}
                         /\ r.filename = basename(ArtifactPath)
                         /\ r.filename # ArtifactPath
                  /\ ArtifactPath \in DOMAIN files'
      ]_vars

(* The copy of a backup has failed after a first backup was recorded, and   *)
(* backup_log holds the first backup's row only                             *)
C17_Witness ==
    /\ last.op = "backup_database"
    /\ last.raised
    /\ last.val.fails \in {"copy", "copy midway"}
    /\ Cardinality(committed.backup_log) = 1

----------------------------------------------------------------------------
(* Claims about the audit log and about sales *)

(* C19: the audit log is append-only over every operation of the store,     *)
(* restore_database included: a row of audit_log, once written, stays as    *)
(* it is, so the set of rows only grows.                                    *)
C19_AuditAppendOnly ==
    [][committed.audit_log \subseteq committed'.audit_log]_vars

(* C19 amended: the audit log is append-only over the operations other than *)
(* restore_database; a restore leaves audit_log as the artifact holds it.   *)
C19_AppendOnlyButRestore ==
    [][/\ ~Called("restore_database") =>
               committed.audit_log \subseteq committed'.audit_log
       /\ (Called("restore_database") /\ last'.ok /\ last'.val.read = "intact") =>
               committed'.audit_log = Artifact.bytes.tables.audit_log
      ]_vars

(* A second audit row has been written after a backup was taken, and the    *)
(* first is as it was written                                               *)
C19_Witness ==
    /\ last.op = "log_audit"
    /\ last.ok
    /\ Cardinality(committed.audit_log) = 2
    /\ committed.backup_log # {}

(* The quantity the lines from the i-th on take out of product p *)
RECURSIVE Sold(_, _, _)
Sold(lines, p, i) ==
    IF i > Len(lines) THEN 0
    ELSE (IF lines[i].product_id = p THEN lines[i].quantity ELSE 0) + Sold(lines, p, i + 1)

(* C20: an add_sale(sale_data, lines) that succeeds adds one sales row and  *)
(* len(lines) sale_items rows, and takes out of every product the sum of    *)
(* the quantities of the lines that reference it (several lines may         *)
(* reference one product); a product no line references keeps its quantity. *)
C20_SaleDecrementsStock ==
    [][(Called("add_sale") /\ ~last'.raised) =>
           /\ committed.sales \subseteq committed'.sales
           /\ Cardinality(committed'.sales \ committed.sales) = 1
           /\ committed.sale_items \subseteq committed'.sale_items
           /\ Cardinality(committed'.sale_items \ committed.sale_items)
                  = Len(last'.val.lines)
           /\ committed'.products =
                  {[p EXCEPT !.quantity = @ - Sold(last'.val.lines, p.product_id, 1)] :
                       p \in committed.products}
      ]_vars

(* A sale of two lines on the same product, of two units each, has been     *)
(* added: the product went from 3 to -1 and the other product is at 3       *)
C20_Witness ==
    /\ last.op = "add_sale"
    /\ ~last.raised
    /\ Len(last.val.lines) = 2
    /\ last.val.lines[1].product_id = last.val.lines[2].product_id
    /\ \E p \in committed.products :
           p.product_id = last.val.lines[1].product_id /\ p.quantity = -1
    /\ \E p \in committed.products :
           p.product_id # last.val.lines[1].product_id /\ p.quantity = 3
    /\ Cardinality(committed.sale_items) = 2

----------------------------------------------------------------------------
(* Claims about the cache *)

(* The keys looked up: those the cache holds, and two it may not hold *)
LookupKeys ==
    DOMAIN cache \cup {Key("_get_by_id_impl", "products", 1),
                       Key("_list_expenses_impl", NULL, NoId)}

(* The lookup of key k left every entry other than k's as it was *)
OthersKept(S, k) ==
    /\ DOMAIN S.cache \ {k} = DOMAIN cache \ {k}
    /\ DOMAIN S.cache_ttl \ {k} = DOMAIN cache_ttl \ {k}
    /\ \A j \in DOMAIN cache \ {k} : S.cache[j] = cache[j] /\ S.cache_ttl[j] = cache_ttl[j]

(* C21 as stated: _get_from_cache(key) at time now returns the stored value *)
(* if and only if the key is present and its expiry is strictly later than  *)
(* now; otherwise it reports absence and the entry, if any, is removed from *)
(* cache and cache_ttl.                                                     *)
C21_ServedBeforeExpiry ==
    \A k \in LookupKeys :
        LET g == _get_from_cache(Pack, k)
        IN IF k \in DOMAIN cache /\ cache_ttl[k] > now
           THEN g.val = cache[k] /\ g.S = Pack
           ELSE /\ IsNone(g.val)
                /\ k \notin DOMAIN g.S.cache
                /\ k \notin DOMAIN g.S.cache_ttl
                /\ OthersKept(g.S, k)

(* C21 amended: _get_from_cache(key) at time now returns the stored value   *)
(* if and only if the key is present and its expiry is not earlier than     *)
(* now (an entry is still served at the instant of its expiry); otherwise   *)
(* it reports absence and removes the entry; and a cached read executes no  *)
(* query exactly when its entry is served.                                  *)
C21_ServedUntilExpiry ==
    /\ [](\A k \in LookupKeys :
              LET g == _get_from_cache(Pack, k)
              IN IF k \in DOMAIN cache /\ cache_ttl[k] >= now
                 THEN g.val = cache[k] /\ g.S = Pack
                 ELSE /\ IsNone(g.val)
                      /\ k \notin DOMAIN g.S.cache
                      /\ k \notin DOMAIN g.S.cache_ttl
                      /\ OthersKept(g.S, k))
    /\ [][CalledRead =>
              IF /\ last'.key \in DOMAIN cache
                 /\ cache_ttl[last'.key] >= now
                 /\ ~IsNone(cache[last'.key])
              THEN /\ last'.nq = 0
                   /\ last'.val = cache[last'.key]
                   /\ cache_ttl'[last'.key] = cache_ttl[last'.key]
              ELSE /\ last'.nq > 0
                   /\ cache_ttl'[last'.key] > now]_vars

(* list_expenses has been served from the cache at the instant its entry    *)
(* expires, while the cache holds another entry that is past its expiry     *)
C21_Witness ==
    /\ last.op = "list_expenses"
    /\ last.nq = 0
    /\ cache_ttl[last.key] = now
    /\ \E k \in DOMAIN cache : cache_ttl[k] < now

(* C22: in every reachable state the cache holds at most max_cache_size     *)
(* entries, and cache and cache_ttl have the same keys.                     *)
C22_CacheBounded ==
    /\ Cardinality(DOMAIN cache) <= max_cache_size
    /\ DOMAIN cache = DOMAIN cache_ttl

(* A read has missed with the cache at its capacity: the entry with the     *)
(* smallest expiry is gone and the cache is at its capacity again           *)
C22_Witness ==
    /\ last.op = "get_by_id"
    /\ last.nq > 0
    /\ last.key.n = max_cache_size + 1
    /\ Cardinality(DOMAIN cache) = max_cache_size
    /\ Key("_get_by_id_impl", "products", 1) \notin DOMAIN cache
    /\ last.key \in DOMAIN cache

(* The ttl the decorator of the function was given, default_ttl when none *)
GivenTtl(k) ==
    IF k.func \in {"_list_expenses_impl", "_list_sales_impl", "_get_inventory_history_impl"}
    THEN list_ttl ELSE default_ttl

(* C23: _set_in_cache(key, value, ttl), which a cached read calls when its  *)
(* lookup has missed, evicts one entry, one with the smallest expiry, when  *)
(* the cache holds max_cache_size entries before the call and none when it  *)
(* holds fewer; afterwards key maps to value with expiry now + ttl          *)
(* (default_ttl when no ttl is given) and the other entries are as before.  *)
C23_EvictsOldestWhenFull ==
    [][(CalledRead /\ last'.nq > 0) =>
           LET k == last'.key
               pre == AfterLookup(Pack, k)
               held == DOMAIN pre.cache
           IN /\ IF Cardinality(held) >= max_cache_size
                 THEN \E o \in held :
                          /\ \A j \in held : pre.cache_ttl[o] <= pre.cache_ttl[j]
                          /\ DOMAIN cache' = (held \ {o}) \cup {k}
                 ELSE DOMAIN cache' = held \cup {k}
              /\ cache'[k] = last'.val
              /\ cache_ttl'[k] = now + GivenTtl(k)
              /\ \A j \in DOMAIN cache' \ {k} :
                     cache'[j] = pre.cache[j] /\ cache_ttl'[j] = pre.cache_ttl[j]
      ]_vars

(* list_expenses has missed with the cache at its capacity: the first entry *)
(* is gone, the list is held until now + list_ttl and the cache is full     *)
C23_Witness ==
    /\ last.op = "list_expenses"
    /\ last.nq > 0
    /\ Cardinality(DOMAIN cache) = max_cache_size
    /\ Key("_get_by_id_impl", "products", 1) \notin DOMAIN cache
    /\ Key("_get_by_id_impl", "products", 2) \in DOMAIN cache
    /\ cache_ttl[last.key] = now + list_ttl

(* The keys whose string holds the name of the table: those of get_by_id on *)
(* the table and of the functions with the table's name in theirs           *)
KeysNaming(table) ==
    {k \in DOMAIN cache :
        \/ k.func = "_get_by_id_impl" /\ k.s = table
        \/ table = "products" /\ k.func = "_list_products_impl"
        \/ table = "expenses" /\ k.func = "_list_expenses_impl"}

(* C24: _invalidate_cache(None) leaves the cache empty;                     *)
(* _invalidate_cache(pattern), as add_product and add_expense call it with  *)
(* the name of their table, removes the entries whose key contains the      *)
(* pattern and leaves the value and the expiry of every other entry.        *)
C24_InvalidateExactly ==
    /\ [](LET S == _invalidate_cache(Pack, NULL)
          IN DOMAIN S.cache = {} /\ DOMAIN S.cache_ttl = {})
    /\ [][\A table \in {"products", "expenses"} :
              (/\ Called(IF table = "products" THEN "add_product" ELSE "add_expense")
               /\ ~last'.raised)
              => /\ DOMAIN cache' = DOMAIN cache \ KeysNaming(table)
                 /\ DOMAIN cache_ttl' = DOMAIN cache_ttl \ KeysNaming(table)
                 /\ \A j \in DOMAIN cache' :
                        cache'[j] = cache[j] /\ cache_ttl'[j] = cache_ttl[j]]_vars

(* add_expense has removed the list of expenses from a cache that held it   *)
(* and a product, and the product's entry is there with its expiry          *)
C24_Witness ==
    /\ last.op = "add_expense"
    /\ ~last.raised
    /\ Key("_list_expenses_impl", NULL, NoId) \in last.val.cached
    /\ Key("_get_by_id_impl", "products", 1) \in last.val.cached
    /\ DOMAIN cache = {Key("_get_by_id_impl", "products", 1)}
    /\ DOMAIN cache_ttl = DOMAIN cache

(* What the object holds: the connection, the database and the cache *)
store == <<db, committed, in_txn, connection, cache, cache_ttl, files, temp_dirs>>

(* C25 as stated: _get_connection on an open store opens nothing, close on  *)
(* a closed store changes nothing, and every operation issued on a closed   *)
(* store reopens the connection.                                            *)
C25_EveryOperationReopens ==
    [][/\ (Called("_get_connection") /\ connection) => UNCHANGED store
       /\ (Called("close") /\ ~connection) => UNCHANGED store
       /\ (last'.call # last.call /\ last'.op # "close" /\ ~connection)
          => connection']_vars

(* C25, amended: _get_connection on an open store opens nothing and on a    *)
(* closed one opens the connection; close discards the handle and changes   *)
(* nothing on a closed store; an operation issued on a closed store that    *)
(* reaches the database reopens the connection and does what it does on an  *)
(* open one, while a read answered by the cache returns its row and leaves  *)
(* the connection closed.                                                   *)
C25_ReopensWhenDatabaseIsReached ==
    [][/\ (Called("_get_connection") /\ connection) => UNCHANGED store
       /\ Called("_get_connection") => connection'
       /\ (Called("close") /\ ~connection) => UNCHANGED store
       /\ Called("close") => ~connection'
       /\ (Called("add_product") /\ ~connection)
          => /\ connection'
             /\ last'.raised
                <=> (last'.key.s # NULL /\ \E p \in committed.products : p.sku = last'.key.s)
             /\ ~last'.raised => Cardinality(committed'.products)
                                  = Cardinality(committed.products) + 1
       /\ (Called("get_by_id") /\ ~connection)
          => /\ ~last'.raised
             /\ connection' <=> last'.nq > 0
             /\ last'.nq = 0 => /\ last'.key \in DOMAIN cache
                                /\ last'.val = cache[last'.key]
                                /\ UNCHANGED store]_vars

(* get_product has returned a row from the cache of a closed store, and     *)
(* the connection is still closed                                           *)
C25_Witness ==
    /\ last.op = "get_by_id"
    /\ last.nq = 0
    /\ last.val.kind = "row"
    /\ ~connection

(* The table gained exactly one row and kept the rows it had *)
OneRowMore(table) ==
    /\ committed[table] \subseteq committed'[table]
    /\ Cardinality(committed'[table]) = Cardinality(committed[table]) + 1
    /\ db'[table] = committed'[table]

(* C26: add_sale, whether it succeeds or raises, leaves inventory_history   *)
(* and audit_log as they were; an adjust_product_quantity that returns True *)
(* adds exactly one row to each of them.                                    *)
C26_OnlyAdjustWritesLedger ==
    [][/\ Called("add_sale")
          => \A table \in {"inventory_history", "audit_log"} :
                 committed'[table] = committed[table] /\ db'[table] = db[table]
       /\ (Called("adjust_product_quantity") /\ last'.ok)
          => OneRowMore("inventory_history") /\ OneRowMore("audit_log")]_vars

(* A product has been sold and adjusted once with True returned: one sale,  *)
(* one row of history, one row of audit                                     *)
C26_Witness ==
    /\ Cardinality(committed.sales) = 1
    /\ Cardinality(committed.sale_items) = 1
    /\ adj[1].n_true = 1
    /\ Cardinality(committed.inventory_history) = 1
    /\ Cardinality(committed.audit_log) = 1

(* The rows of backup_log this step has marked: verified now, and neither   *)
(* in the log before the step nor in the artifact a restore has swapped in  *)
NewlyVerified ==
    LET before == IF Called("restore_database") /\ last'.val.swap = "done"
                  THEN files[PathOf(last'.key)].bytes.tables.backup_log
                  ELSE committed.backup_log
    IN {r \in committed'.backup_log : r.verified = 1 /\ r \notin before}

(* C27: a backup_log row gets verified = 1 only in a step that compared the *)
(* checksum recorded in the sidecar of the artifact the row names with the  *)
(* checksum of the database file and found them equal; restore_database     *)
(* with verify_integrity=False, or with a sidecar without a checksum,       *)
(* marks no row.                                                            *)
C27_VerifiedOnlyAfterComparison ==
    [][\A r \in NewlyVerified :
           /\ \/ Called("verify_backup_integrity")
              \/ Called("restore_database") /\ last'.key.func = "verify_integrity=True"
           /\ r.filename = basename(PathOf(last'.key))
           /\ VerifyPasses(files[PathOf(last'.key)])]_vars

(* C28: once construction has completed the schema version read from the    *)
(* database is CURRENT_VERSION in every later state and never decreases,    *)
(* also when restore_database has returned True for a backup taken at an    *)
(* earlier schema version.                                                  *)
C28_VersionStaysCurrent ==
    /\ [](boot.pc = "done" => _get_current_schema_version(committed) = CURRENT_VERSION)
    /\ [][_get_current_schema_version(committed')
          >= _get_current_schema_version(committed)]_vars

(* C29: no operation that ended with an error leaves the connection inside  *)
(* an open transaction, and an add_sale whose lines name products that      *)
(* exist (and no customer) does not raise, whatever failed before it.       *)
C29_NoTransactionLeftOpen ==
    [][/\ (last'.call # last.call /\ last'.raised) => ~in_txn'
       /\ (/\ Called("add_sale")
           /\ \A i \in DOMAIN last'.val.lines :
                  Exists(committed, "products", last'.val.lines[i].product_id))
          => ~last'.raised]_vars

(* C30: a successful backup_database returns a path at which no artifact    *)
(* was, and leaves the artifacts that were in the directory as they were;   *)
(* no two rows of backup_log carry the same filename.  This also for calls  *)
(* within the same second.                                                  *)
C30_BackupPathsDistinct ==
    /\ [](\A r1, r2 \in committed.backup_log :
              r1.filename = r2.filename => r1 = r2)
    /\ [][(Called("backup_database") /\ last'.ok)
          => /\ PathOf(last'.key) \notin DOMAIN files
             /\ \A p \in DOMAIN files :
                    p \in DOMAIN files' /\ files'[p] = files[p]]_vars

============================================================================
